---- MODULE Spec2Model ----
(***************************************************************************)
(* A model of the subdivided-plane generator of src/src/plane.rs: the      *)
(* Plane value (grid parameters and cursor), its constructors, the face    *)
(* iterator and the shared-vertex / indexed-polygon lookups.  Coordinates  *)
(* are f32 values, modelled bit-exactly as mantissa/exponent pairs with    *)
(* round-to-nearest-even at 24 significant bits.                           *)
(***************************************************************************)
EXTENDS Integers, Sequences, FiniteSets

(***************************************************************************)
(* Bounds of the model.                                                    *)
(***************************************************************************)
\* largest subdivision count passed to subdivide() in Spec
MaxSub == 4
\* calls to next() allowed beyond MaxSub * MaxSub
ExtraCalls == 3
\* largest x / y subdivision counts in SpecCorners
CornerMaxX == 41
CornerMaxY == 2

MaxCalls == MaxSub * MaxSub + ExtraCalls

(***************************************************************************)
(* f32 arithmetic.  A value is [m, e] standing for m * 2^e, kept canonical *)
(* (m odd, or m = 0 and e = 0) so that equal values are equal records.     *)
(***************************************************************************)
\* significand width of f32
MantBits == 24

Abs(n) == IF n < 0 THEN -n ELSE n
Sgn(n) == IF n < 0 THEN -1 ELSE 1

RECURSIVE Norm(_, _)
Norm(m, e) ==
    IF m = 0 THEN [m |-> 0, e |-> 0]
    ELSE IF m % 2 = 0 THEN Norm(m \div 2, e + 1)
    ELSE [m |-> m, e |-> e]

RECURSIVE BitLen(_)
BitLen(n) == IF n = 0 THEN 0 ELSE 1 + BitLen(n \div 2)

\* the f32 nearest to the exact value m * 2^e, ties to even
RoundF(m, e) ==
    LET a == Abs(m)
        s == BitLen(a) - MantBits
    IN  IF s <= 0 THEN Norm(m, e)
        ELSE LET q    == a \div (2 ^ s)
                 r    == a % (2 ^ s)
                 half == 2 ^ (s - 1)
                 up   == r > half \/ (r = half /\ q % 2 = 1)
             IN  Norm(Sgn(m) * (IF up THEN q + 1 ELSE q), e + s)

\* `n as f32`
FromUsize(n) == RoundF(n, 0)

FMul(a, b) == RoundF(a.m * b.m, a.e + b.e)

RECURSIVE DivShift(_, _, _)
DivShift(na, nb, k) ==
    IF na * (2 ^ k) >= (2 ^ (MantBits - 1)) * nb THEN k ELSE DivShift(na, nb, k + 1)

FDiv(a, b) ==
    LET na == Abs(a.m)
        nb == Abs(b.m)
        k  == DivShift(na, nb, 0)
        q  == (na * (2 ^ k)) \div nb
        r  == (na * (2 ^ k)) % nb
        up == 2 * r > nb \/ (2 * r = nb /\ q % 2 = 1)
    IN  IF na = 0 THEN [m |-> 0, e |-> 0]
        ELSE RoundF(Sgn(a.m) * Sgn(b.m) * (IF up THEN q + 1 ELSE q), a.e - b.e - k)

FSub(a, b) ==
    LET e == IF a.e < b.e THEN a.e ELSE b.e
    IN  RoundF(a.m * (2 ^ (a.e - e)) - b.m * (2 ^ (b.e - e)), e)

\* the literals 2. and 1. of vert, and -1.
FTwo == [m |-> 1, e |-> 1]
FOne == [m |-> 1, e |-> 0]
FMinusOne == [m |-> -1, e |-> 0]

(***************************************************************************)
(* Plane and its pure methods.                                             *)
(***************************************************************************)
Quad(a, b, c, d) == <<a, b, c, d>>
None == <<>>
Some(v) == <<v>>

\* the value of the fields before any constructor has run
NoPlane == [subdivide_x |-> 0, subdivide_y |-> 0, x |-> 0, y |-> 0]

new == [subdivide_x |-> 1, subdivide_y |-> 1, x |-> 0, y |-> 0]

subdivide_or(a, b) ==
    [ok |-> a > 0 \/ b > 0,
     plane |-> IF a > 0 \/ b > 0
               THEN [subdivide_x |-> a, subdivide_y |-> b, x |-> 0, y |-> 0]
               ELSE NoPlane]

\* ok = FALSE is the failed assert!: no Plane is produced
subdivide(a, b) ==
    [ok |-> a > 0 /\ b > 0,
     plane |-> IF a > 0 /\ b > 0
               THEN [subdivide_x |-> a, subdivide_y |-> b, x |-> 0, y |-> 0]
               ELSE NoPlane]

\* one axis of vert: (2. / n as f32) * g as f32 - 1.
Coord(n, g) == FSub(FMul(FDiv(FTwo, FromUsize(n)), FromUsize(g)), FOne)

\* Coord tabulated once over the arguments the model uses; Axis is Coord
\* everywhere, read from the table where the table has the entry
Max2(a, b) == IF a > b THEN a ELSE b
TabN == Max2(MaxSub, CornerMaxX)
TabG == TabN + ExtraCalls + 1
CoordTab == [n \in 1..TabN |-> [g \in 0..TabG |-> Coord(n, g)]]
Axis(n, g) ==
    IF n \in 1..TabN /\ g \in 0..TabG THEN CoordTab[n][g] ELSE Coord(n, g)

vert(self, gx, gy) ==
    <<Axis(self.subdivide_x, gx), Axis(self.subdivide_y, gy)>>

next_column_major(self) ==
    LET wrap == self.y = self.subdivide_y
        s1   == IF wrap THEN [self EXCEPT !.y = 0, !.x = self.x + 1] ELSE self
    IN  IF wrap /\ s1.x = s1.subdivide_x
        THEN [self |-> s1, ret |-> None]
        ELSE [self |-> [s1 EXCEPT !.y = s1.y + 1],
              ret  |-> Some(Quad(vert(s1, s1.x,     s1.y),
                                 vert(s1, s1.x + 1, s1.y),
                                 vert(s1, s1.x + 1, s1.y + 1),
                                 vert(s1, s1.x,     s1.y + 1)))]

\* Iterator::next: the Plane after the call and the Option it returns
next(self) ==
    LET wrap == self.x = self.subdivide_x
        s1   == IF wrap THEN [self EXCEPT !.x = 0, !.y = self.y + 1] ELSE self
    IN  IF wrap /\ s1.y = s1.subdivide_y
        THEN [self |-> s1, ret |-> None]
        ELSE [self |-> [s1 EXCEPT !.x = s1.x + 1],
              ret  |-> Some(Quad(vert(s1, s1.x,     s1.y),
                                 vert(s1, s1.x + 1, s1.y),
                                 vert(s1, s1.x + 1, s1.y + 1),
                                 vert(s1, s1.x,     s1.y + 1)))]

shared_vertex_cursor(self, idx) ==
    LET gy == idx \div (self.subdivide_x + 1)
    IN  vert(self, self.x, gy)

shared_vertex(self, idx) ==
    LET gy == idx \div (self.subdivide_x + 1)
        gx == idx % (self.subdivide_x + 1)
    IN  vert(self, gx, gy)

shared_vertex_count_cells(self) == self.subdivide_x * (self.subdivide_y + 1)

shared_vertex_count(self) == (self.subdivide_x + 1) * (self.subdivide_y + 1)

indexed_polygon_wide(self, idx) ==
    LET row  == idx \div self.subdivide_x
        base == row * (self.subdivide_x + 2)
        col  == idx % self.subdivide_x
    IN  Quad((col + base) + self.subdivide_x + 1,
             (col + base),
             (col + base) + 1,
             (col + base) + self.subdivide_x + 2)

indexed_polygon_narrow(self, idx) ==
    LET row  == idx \div self.subdivide_x
        base == row * self.subdivide_x
        col  == idx % self.subdivide_x
    IN  Quad((col + base) + self.subdivide_x + 1,
             (col + base),
             (col + base) + 1,
             (col + base) + self.subdivide_x + 2)

indexed_polygon_seq_order(self, idx) ==
    LET row  == idx \div self.subdivide_x
        base == row * (self.subdivide_x + 1)
        col  == idx % self.subdivide_x
    IN  Quad((col + base),
             (col + base) + 1,
             (col + base) + self.subdivide_x + 2,
             (col + base) + self.subdivide_x + 1)

indexed_polygon(self, idx) ==
    LET row  == idx \div self.subdivide_x
        base == row * (self.subdivide_x + 1)
        col  == idx % self.subdivide_x
    IN  Quad((col + base) + self.subdivide_x + 1,
             (col + base),
             (col + base) + 1,
             (col + base) + self.subdivide_x + 2)

indexed_polygon_count(self) == self.subdivide_x * self.subdivide_y

(***************************************************************************)
(* The state machine: one Plane, built once, then used through next and    *)
(* the lookups in any order.                                               *)
(***************************************************************************)
VARIABLES
    pc,      \* "start" before construction, "live" with a Plane, "panicked"
    plane,   \* the Plane's fields
    ctor,    \* the constructor call made: <<"new">> or <<"subdivide", a, b>>
    trace,   \* what each call of next returned, in order
    ret      \* the last call: [op, arg, val]

vars == <<pc, plane, ctor, trace, ret>>

Init ==
    /\ pc = "start"
    /\ plane = NoPlane
    /\ ctor = <<>>
    /\ trace = <<>>
    /\ ret = [op |-> "none", arg |-> 0, val |-> <<>>]

New ==
    /\ pc = "start"
    /\ pc' = "live"
    /\ plane' = new
    /\ ctor' = <<"new">>
    /\ UNCHANGED <<trace, ret>>

Subdivide(a, b) ==
    /\ pc = "start"
    /\ LET r == subdivide(a, b)
       IN  /\ pc' = IF r.ok THEN "live" ELSE "panicked"
           /\ plane' = r.plane
    /\ ctor' = <<"subdivide", a, b>>
    /\ UNCHANGED <<trace, ret>>

NextCall ==
    /\ pc = "live"
    /\ Len(trace) < MaxCalls
    /\ LET r == next(plane)
       IN  /\ plane' = r.self
           /\ trace' = Append(trace, r.ret)
           /\ ret' = [op |-> "next", arg |-> 0, val |-> r.ret]
    /\ UNCHANGED <<pc, ctor>>

SharedVertex(idx) ==
    /\ pc = "live"
    /\ ret' = [op |-> "shared_vertex", arg |-> idx, val |-> shared_vertex(plane, idx)]
    /\ UNCHANGED <<pc, plane, ctor, trace>>

SharedVertexCount ==
    /\ pc = "live"
    /\ ret' = [op |-> "shared_vertex_count", arg |-> 0,
               val |-> <<shared_vertex_count(plane)>>]
    /\ UNCHANGED <<pc, plane, ctor, trace>>

IndexedPolygon(idx) ==
    /\ pc = "live"
    /\ ret' = [op |-> "indexed_polygon", arg |-> idx, val |-> indexed_polygon(plane, idx)]
    /\ UNCHANGED <<pc, plane, ctor, trace>>

IndexedPolygonCount ==
    /\ pc = "live"
    /\ ret' = [op |-> "indexed_polygon_count", arg |-> 0,
               val |-> <<indexed_polygon_count(plane)>>]
    /\ UNCHANGED <<pc, plane, ctor, trace>>

Next ==
    \/ New
    \/ \E a \in 0..MaxSub, b \in 0..MaxSub : Subdivide(a, b)
    \/ NextCall
    \/ \E idx \in 0..(shared_vertex_count(plane) - 1) : SharedVertex(idx)
    \/ SharedVertexCount
    \/ \E idx \in 0..(indexed_polygon_count(plane) - 1) : IndexedPolygon(idx)
    \/ IndexedPolygonCount

Spec == Init /\ [][Next]_vars

(***************************************************************************)
(* The shared-vertex view alone, on grids wide enough for f32 rounding to  *)
(* show.                                                                   *)
(***************************************************************************)
NextCorners ==
    \/ \E a \in 1..CornerMaxX, b \in 1..CornerMaxY : Subdivide(a, b)
    \/ \E idx \in 0..(shared_vertex_count(plane) - 1) : SharedVertex(idx)
    \/ SharedVertexCount

SpecCorners == Init /\ [][NextCorners]_vars

(***************************************************************************)
(* Vocabulary of the properties.                                           *)
(***************************************************************************)
Live == pc = "live"

\* the cells and faces the grid has
Cells == plane.subdivide_x * plane.subdivide_y

\* the face of the cell in column col, row row: bottom-left, bottom-right,
\* top-right, top-left
CellFace(col, row) ==
    Quad(vert(plane, col,     row),
         vert(plane, col + 1, row),
         vert(plane, col + 1, row + 1),
         vert(plane, col,     row + 1))

\* the Plane with its cursor back at (0, 0)
Rewound(self) == [self EXCEPT !.x = 0, !.y = 0]

\* C1: once next has returned None, every later call of next returns None
\* and emits no face.
C1_EndIsPermanent ==
    \A i \in DOMAIN trace : \A j \in DOMAIN trace :
        (i < j /\ trace[i] = None) => trace[j] = None

\* C2: from a fresh subdivide(sx, sy) the first sx*sy calls of next return
\* the cells in row-major order, the k-th being the cell in column k mod sx,
\* row k div sx with corners at (x,y), (x+1,y), (x+1,y+1), (x,y+1), and call
\* number sx*sy+1 is the first to return None.
C2_RowMajorFaces ==
    Live =>
        /\ \A k \in 1..Len(trace) :
              k <= Cells =>
                  trace[k] = Some(CellFace((k - 1) % plane.subdivide_x,
                                           (k - 1) \div plane.subdivide_x))
        /\ Len(trace) > Cells => trace[Cells + 1] = None

C2_Witness ==
    /\ Live
    /\ plane.subdivide_x = 3
    /\ plane.subdivide_y = 2
    /\ Len(trace) = 7
    /\ trace[7] = None
    /\ ret.op = "next"

\* C3: every vertex index of every face of the indexed view is >= 0 and
\* < shared_vertex_count() = (sx+1)*(sy+1).
C3_IndicesInRange ==
    Live =>
        /\ \A i \in 0..(indexed_polygon_count(plane) - 1) : \A j \in 1..4 :
              /\ indexed_polygon(plane, i)[j] >= 0
              /\ indexed_polygon(plane, i)[j] < shared_vertex_count(plane)
        /\ shared_vertex_count(plane) = (plane.subdivide_x + 1) * (plane.subdivide_y + 1)
        /\ ret.op = "indexed_polygon" =>
              \A j \in 1..4 : ret.val[j] \in 0..(shared_vertex_count(plane) - 1)

C3_Witness ==
    /\ Live
    /\ plane.subdivide_x >= 2
    /\ plane.subdivide_y >= 2
    /\ ret.op = "indexed_polygon"
    /\ ret.arg = indexed_polygon_count(plane) - 1
    /\ ret.val[4] = shared_vertex_count(plane) - 1

\* C4: the k-th face of the sequence and indexed_polygon(k) are the same
\* cell: shared_vertex of the indexed face's entries gives top-left,
\* bottom-left, bottom-right, top-right of that cell, so the sequence's
\* corner j equals shared_vertex of the indexed entry (j+1) mod 4.
C4_ViewsAgree ==
    Live =>
        \A k \in 1..Len(trace) :
            k <= Cells =>
                LET s   == trace[k][1]
                    p   == indexed_polygon(plane, k - 1)
                    col == (k - 1) % plane.subdivide_x
                    row == (k - 1) \div plane.subdivide_x
                IN  /\ \A j \in 0..3 :
                          s[j + 1] = shared_vertex(plane, p[((j + 1) % 4) + 1])
                    /\ shared_vertex(plane, p[1]) = vert(plane, col,     row + 1)
                    /\ shared_vertex(plane, p[2]) = vert(plane, col,     row)
                    /\ shared_vertex(plane, p[3]) = vert(plane, col + 1, row)
                    /\ shared_vertex(plane, p[4]) = vert(plane, col + 1, row + 1)

C4_Witness ==
    /\ Live
    /\ plane.subdivide_x = 2
    /\ plane.subdivide_y = 3
    /\ Len(trace) = 6
    /\ trace[6] # None

\* C5: neighbouring cells share vertex indices: a cell not in the last
\* column shares its bottom-right and top-right with the bottom-left and
\* top-left of the next cell, and a cell not in the last row shares its
\* top-left and top-right with the bottom-left and bottom-right of the cell
\* one row up.
C5_NoSeams ==
    Live =>
        \A i \in 0..(indexed_polygon_count(plane) - 1) :
            LET p == indexed_polygon(plane, i)
            IN  /\ (i % plane.subdivide_x) # plane.subdivide_x - 1 =>
                      LET q == indexed_polygon(plane, i + 1)
                      IN  p[3] = q[2] /\ p[4] = q[1]
                /\ (i \div plane.subdivide_x) # plane.subdivide_y - 1 =>
                      LET q == indexed_polygon(plane, i + plane.subdivide_x)
                      IN  p[1] = q[2] /\ p[4] = q[3]

C5_Witness ==
    /\ Live
    /\ plane.subdivide_x >= 2
    /\ plane.subdivide_y >= 2
    /\ ret.op = "indexed_polygon"
    /\ ret.arg = 0
    /\ ret.val[3] = indexed_polygon(plane, 1)[2]
    /\ ret.val[1] = indexed_polygon(plane, plane.subdivide_x)[2]

\* C6: subdivide(sx, sy) has (sx+1)*(sy+1) vertices and sx*sy polygons,
\* new() is subdivide(1, 1) with 4 and 1, (2,2) has 9 and 4, (4,4) has 25
\* and 16.
C6_Counts ==
    Live =>
        /\ ctor[1] = "subdivide" =>
              /\ shared_vertex_count(plane) = (ctor[2] + 1) * (ctor[3] + 1)
              /\ indexed_polygon_count(plane) = ctor[2] * ctor[3]
        /\ ctor[1] = "new" =>
              /\ Rewound(plane) = subdivide(1, 1).plane
              /\ shared_vertex_count(plane) = 4
              /\ indexed_polygon_count(plane) = 1
        /\ ctor = <<"subdivide", 2, 2>> =>
              shared_vertex_count(plane) = 9 /\ indexed_polygon_count(plane) = 4
        /\ ctor = <<"subdivide", 4, 4>> =>
              shared_vertex_count(plane) = 25 /\ indexed_polygon_count(plane) = 16
        /\ ret.op = "shared_vertex_count" =>
              ret.val = <<(plane.subdivide_x + 1) * (plane.subdivide_y + 1)>>
        /\ ret.op = "indexed_polygon_count" =>
              ret.val = <<plane.subdivide_x * plane.subdivide_y>>

C6_Witness ==
    /\ Live
    /\ ctor = <<"subdivide", 4, 4>>
    /\ ret.op = "shared_vertex_count"
    /\ ret.val = <<25>>

\* C7: subdivide(x, y) fails its assertion and produces no Plane exactly
\* when x = 0 or y = 0, and otherwise produces the Plane with grid
\* parameters (x, y) and cursor (0, 0).
C7_SubdividePrecondition ==
    (ctor # <<>> /\ ctor[1] = "subdivide") =>
        LET a == ctor[2]
            b == ctor[3]
        IN  /\ (a = 0 \/ b = 0) <=> pc = "panicked"
            /\ pc = "panicked" => plane = NoPlane /\ trace = <<>>
            /\ (a > 0 /\ b > 0) =>
                  /\ pc = "live"
                  /\ plane.subdivide_x = a
                  /\ plane.subdivide_y = b
                  /\ trace = <<>> => (plane.x = 0 /\ plane.y = 0)

C7_Witness ==
    /\ pc = "panicked"
    /\ ctor = <<"subdivide", 0, 3>>

\* C8: for any grid, shared_vertex gives the outer corners exactly:
\* (-1,-1) at 0, (1,-1) at subdivide_x, (1,1) at shared_vertex_count()-1 and
\* (-1,1) at shared_vertex_count()-subdivide_x-1.
C8_CornersExact ==
    Live =>
        /\ shared_vertex(plane, 0) = <<FMinusOne, FMinusOne>>
        /\ shared_vertex(plane, plane.subdivide_x) = <<FOne, FMinusOne>>
        /\ shared_vertex(plane, shared_vertex_count(plane) - 1) = <<FOne, FOne>>
        /\ shared_vertex(plane, shared_vertex_count(plane) - plane.subdivide_x - 1)
              = <<FMinusOne, FOne>>

\* C9: a lookup leaves the cursor, the grid parameters and the sequence
\* untouched, returns what it returns with the cursor at (0, 0), and does
\* not change what the following next returns.
C9_LookupsStateless ==
    [][ret'.op \in {"shared_vertex", "indexed_polygon",
                    "shared_vertex_count", "indexed_polygon_count"} =>
          /\ plane' = plane
          /\ trace' = trace
          /\ pc' = pc
          /\ next(plane').ret = next(plane).ret
          /\ ret'.op = "shared_vertex" =>
                ret'.val = shared_vertex(Rewound(plane), ret'.arg)
          /\ ret'.op = "indexed_polygon" =>
                ret'.val = indexed_polygon(Rewound(plane), ret'.arg)
          /\ ret'.op = "shared_vertex_count" =>
                ret'.val = <<shared_vertex_count(Rewound(plane))>>
          /\ ret'.op = "indexed_polygon_count" =>
                ret'.val = <<indexed_polygon_count(Rewound(plane))>>]_vars

C9_Witness ==
    /\ Live
    /\ plane.x = 1
    /\ plane.y = 1
    /\ trace # <<>>
    /\ ret.op = "shared_vertex"
    /\ ret.arg = shared_vertex_count(plane) - 1

\* C10: in every state reached by calls of next, also calls made after None,
\* 0 <= x <= subdivide_x and 0 <= y <= subdivide_y, and the grid parameters
\* are those the Plane was built with.
C10_CursorInRange ==
    Live =>
        /\ 0 <= plane.x /\ plane.x <= plane.subdivide_x
        /\ 0 <= plane.y /\ plane.y <= plane.subdivide_y
        /\ ctor[1] = "subdivide" =>
              plane.subdivide_x = ctor[2] /\ plane.subdivide_y = ctor[3]
        /\ ctor[1] = "new" => plane.subdivide_x = 1 /\ plane.subdivide_y = 1

====
